---- MODULE Spec2Model ----
(***************************************************************************)
(* Model of css/gaia-icons/create-svg-icon-set-file.py: a script that      *)
(* reads every .svg file of a directory, cleans up each icon's markup,     *)
(* measures it, and writes one "icon set" SVG document.                    *)
(*                                                                         *)
(* Text is modelled as a sequence of tokens.  A token is either a literal  *)
(* piece of text (Lit) or one attribute (Attr): the white space in front   *)
(* of it, its name and its value, standing for  <ws><name>="<val>".  A     *)
(* value and a file name are themselves sequences of short pieces, so      *)
(* that str.replace, int() and str() are computed and not assumed.         *)
(* The script is Python 2 (filter() gives a list, "/" on ints divides      *)
(* with truncation), and that is the build modelled.                       *)
(***************************************************************************)
EXTENDS Integers, Sequences, FiniteSets, TLC

\* ------------------------------------------------------------------ tokens

Lit(s) == [attr |-> FALSE, ws |-> "", name |-> s, val |-> <<>>]
Attr(w, n, v) == [attr |-> TRUE, ws |-> w, name |-> n, val |-> v]

SVGNS == <<"http://www.w3.org/2000/svg">>
XLINKNS == <<"http://www.w3.org/1999/xlink">>

\* \s of the regular expressions, on literal tokens
IsSpaceTok(t) == ~t.attr /\ t.name \in {" ", "\t", "\n"}
\* [ \t] of path_open_tag_re
IsBlankTok(t) == ~t.attr /\ t.name \in {" ", "\t"}
\* the token's text starts with a space: what follows "<svg" in "<svg " and "<path "
StartsWithSpace(t) == IF t.attr THEN t.ws = " " ELSE t.name = " "
StartsWithNewline(t) == IF t.attr THEN t.ws = "\n" ELSE t.name = "\n"
EndsWithNewline(t) == ~t.attr /\ t.name = "\n"
\* the token's text holds a ">" (always as its last character in this vocabulary)
HasGt(t) == ~t.attr /\ t.name \in {">", "/>", "?>", "<g>", "</g>", "</svg>", "</path>", "<html>"}

\* " NAME=\"[^\"]+\"": a space, the name, a non-empty value
AttrRe(n, t) == t.attr /\ t.ws = " " /\ t.name = n /\ t.val # <<>>

\* lines 76-85
xmlns_re(t) == t.attr /\ t.ws = " " /\ t.name = "xmlns" /\ t.val = SVGNS
xlink_re(t) == t.attr /\ t.ws = " " /\ t.name = "xmlns:xlink" /\ t.val = XLINKNS
version_re(t) == AttrRe("version", t)
id_re(t) == AttrRe("id", t)
x_re(t) == AttrRe("x", t)
y_re(t) == AttrRe("y", t)
enable_background_re(t) == AttrRe("enable-background", t)
xml_space_re(t) == AttrRe("xml:space", t)
fill_re(t) == AttrRe("fill", t)

\* length of the run of \s tokens at the head of s
RECURSIVE SpaceRunLen(_)
SpaceRunLen(s) ==
  IF s = <<>> \/ ~IsSpaceTok(Head(s)) THEN 0 ELSE 1 + SpaceRunLen(Tail(s))

\* length of the run of [ \t] tokens at the head of s
RECURSIVE BlankRunLen(_)
BlankRunLen(s) ==
  IF s = <<>> \/ ~IsBlankTok(Head(s)) THEN 0 ELSE 1 + BlankRunLen(Tail(s))

Drop(s, n) == SubSeq(s, n + 1, Len(s))

\* empty_g_re = "<g>\s+</g>\s*\n": the length of its match at the head of s, 0 if none
EmptyGMatchLen(s) ==
  IF s = <<>> \/ Head(s) # Lit("<g>") THEN 0
  ELSE LET w1 == SpaceRunLen(Tail(s))
           r1 == Drop(s, 1 + w1)
       IN IF w1 = 0 \/ r1 = <<>> \/ Head(r1) # Lit("</g>") THEN 0
          ELSE LET w2 == SpaceRunLen(Tail(r1))
                   nls == {j \in 1..w2 : r1[1 + j] = Lit("\n")}
               IN IF nls = {} THEN 0
                  ELSE 1 + w1 + 1 + (CHOOSE j \in nls : \A k \in nls : k <= j)

RECURSIVE empty_g_sub(_)
empty_g_sub(s) ==
  IF s = <<>> THEN <<>>
  ELSE LET n == EmptyGMatchLen(s)
       IN IF n > 0 THEN empty_g_sub(Drop(s, n))
          ELSE <<Head(s)>> \o empty_g_sub(Tail(s))

\* path_close_tag_re.sub("/>", s): "></path>" becomes "/>"
RECURSIVE path_close_tag_sub(_)
path_close_tag_sub(s) ==
  IF s = <<>> THEN <<>>
  ELSE IF Len(s) >= 2 /\ s[1] = Lit(">") /\ s[2] = Lit("</path>")
       THEN <<Lit("/>")>> \o path_close_tag_sub(Drop(s, 2))
       ELSE <<Head(s)>> \o path_close_tag_sub(Tail(s))

\* svg_open_tag_re.sub("  <svg ", s): "^\s*<svg " matches at the start of the text only
svg_open_tag_sub(s) ==
  LET w == SpaceRunLen(s)
      r == Drop(s, w)
  IN IF Len(r) >= 2 /\ r[1] = Lit("<svg") /\ StartsWithSpace(r[2])
     THEN <<Lit(" "), Lit(" ")>> \o r
     ELSE s

\* path_open_tag_re.sub("    <path ", s): "[ \t]*<path "
RECURSIVE path_open_tag_sub(_)
path_open_tag_sub(s) ==
  IF s = <<>> THEN <<>>
  ELSE LET w == BlankRunLen(s)
           r == Drop(s, w)
       IN IF Len(r) >= 2 /\ r[1] = Lit("<path") /\ StartsWithSpace(r[2])
          THEN <<Lit(" "), Lit(" "), Lit(" "), Lit(" "), Lit("<path")>>
               \o path_open_tag_sub(Tail(r))
          ELSE <<Head(s)>> \o path_open_tag_sub(Tail(s))

\* svg_close_tag_re.sub("  </svg>", s)
RECURSIVE svg_close_tag_sub(_)
svg_close_tag_sub(s) ==
  IF s = <<>> THEN <<>>
  ELSE (IF Head(s) = Lit("</svg>") THEN <<Lit(" "), Lit(" "), Lit("</svg>")>>
        ELSE <<Head(s)>>) \o svg_close_tag_sub(Tail(s))

\* a result or the exception that ended the call
Ok(v) == [ok |-> TRUE, val |-> v, err |-> ""]
Raise(e) == [ok |-> FALSE, val |-> <<>>, err |-> e]

\* markup.index("<svg "): the positions where "<svg " starts
SvgOpenAt(m) == {i \in 1..(Len(m) - 1) : m[i] = Lit("<svg") /\ StartsWithSpace(m[i + 1])}
\* markup.index(">", start_index + 1): the tokens after `from` that hold a ">"
GtAfter(m, from) == {i \in (from + 1)..Len(m) : HasGt(m[i])}
Least(S) == CHOOSE i \in S : \A j \in S : i <= j

\* start_tag.replace("<svg", "  <svg id=\"" + icon_name + "\"")
RECURSIVE SetId(_, _)
SetId(s, icon_name) ==
  IF s = <<>> THEN <<>>
  ELSE (IF Head(s) = Lit("<svg")
        THEN <<Lit(" "), Lit(" "), Lit("<svg"), Attr(" ", "id", icon_name)>>
        ELSE <<Head(s)>>) \o SetId(Tail(s), icon_name)

\* CleanStartTag without line 106
CleanStartTagKeepsY(start_tag, icon_name) ==
  LET t1 == SelectSeq(start_tag, LAMBDA t : ~xmlns_re(t))
      t2 == SelectSeq(t1, LAMBDA t : ~xlink_re(t))
      t3 == SelectSeq(t2, LAMBDA t : ~id_re(t))
      t4 == SelectSeq(t3, LAMBDA t : ~version_re(t))
      t5 == SelectSeq(t4, LAMBDA t : ~x_re(t))
      t7 == SelectSeq(t5, LAMBDA t : ~enable_background_re(t))
      t8 == SelectSeq(t7, LAMBDA t : ~xml_space_re(t))
  IN SetId(t8, icon_name)

\* lines 98-110, on the start tag; pattern.sub("", text) drops the tokens matched
CleanStartTag(start_tag, icon_name) ==
  LET t1 == SelectSeq(start_tag, LAMBDA t : ~xmlns_re(t))
      t2 == SelectSeq(t1, LAMBDA t : ~xlink_re(t))
      t3 == SelectSeq(t2, LAMBDA t : ~id_re(t))
      t4 == SelectSeq(t3, LAMBDA t : ~version_re(t))
      t5 == SelectSeq(t4, LAMBDA t : ~x_re(t))
      t6 == SelectSeq(t5, LAMBDA t : ~y_re(t))
      t7 == SelectSeq(t6, LAMBDA t : ~enable_background_re(t))
      t8 == SelectSeq(t7, LAMBDA t : ~xml_space_re(t))
  IN SetId(t8, icon_name)

\* lines 112-120, on the text after the start tag
CleanRest(the_rest) ==
  LET r1 == empty_g_sub(the_rest)
      r2 == SelectSeq(r1, LAMBDA t : ~fill_re(t))
      r3 == path_close_tag_sub(r2)
      r4 == svg_open_tag_sub(r3)
      r5 == path_open_tag_sub(r4)
  IN svg_close_tag_sub(r5)

\* lines 121-124; the_rest[0] of an empty text raises IndexError
FixNewlines(the_rest) ==
  LET a == IF StartsWithNewline(the_rest[1]) THEN the_rest ELSE <<Lit("\n")>> \o the_rest
  IN IF EndsWithNewline(a[Len(a)]) THEN a ELSE a \o <<Lit("\n")>>

clean_markup(markup, icon_name) ==
  IF SvgOpenAt(markup) = {} THEN Raise("ValueError")
  ELSE LET start_index == Least(SvgOpenAt(markup))
       IN IF GtAfter(markup, start_index) = {} THEN Raise("ValueError")
          ELSE LET end_of_start_tag_index == Least(GtAfter(markup, start_index))
                   start_tag == SubSeq(markup, start_index, end_of_start_tag_index)
                   the_rest == CleanRest(Drop(markup, end_of_start_tag_index))
               IN IF the_rest = <<>> THEN Raise("IndexError")
                  ELSE Ok(CleanStartTag(start_tag, icon_name) \o FixNewlines(the_rest))

\* ------------------------------------------------------------- dimensions

IsDigit(c) == c \in {"0", "1", "2", "3", "4", "5", "6", "7", "8", "9"}
DigitVal(c) ==
  CASE c = "0" -> 0 [] c = "1" -> 1 [] c = "2" -> 2 [] c = "3" -> 3 [] c = "4" -> 4
    [] c = "5" -> 5 [] c = "6" -> 6 [] c = "7" -> 7 [] c = "8" -> 8 [] c = "9" -> 9
DigitChar(d) == <<"0", "1", "2", "3", "4", "5", "6", "7", "8", "9">>[d + 1]

\* int(text) of a text that is all digits
RECURSIVE ParseDigits(_)
ParseDigits(v) ==
  IF v = <<>> THEN 0 ELSE 10 * ParseDigits(SubSeq(v, 1, Len(v) - 1)) + DigitVal(v[Len(v)])

\* str(n) of an int n >= 0
RECURSIVE str(_)
str(n) == IF n < 10 THEN <<DigitChar(n)>> ELSE str(n \div 10) \o <<DigitChar(n % 10)>>

\* int(value.replace("px", "")): ValueError unless what is left is a run of digits
ParseDim(value) ==
  LET v == SelectSeq(value, LAMBDA c : c # "px")
  IN IF v # <<>> /\ \A k \in 1..Len(v) : IsDigit(v[k]) THEN Ok(ParseDigits(v))
     ELSE Raise("ValueError")

\* line 127, 128
width_re(t) == AttrRe("width", t)
height_re(t) == AttrRe("height", t)

\* where the patterns match in a markup; re.search gives the first match
WidthAt(m) == {i \in 1..Len(m) : width_re(m[i])}
HeightAt(m) == {i \in 1..Len(m) : height_re(m[i])}

\* lines 130-133; .group(1) of a failed search raises AttributeError
get_icon_dimensions_from_markup(markup) ==
  IF WidthAt(markup) = {} THEN Raise("AttributeError")
  ELSE LET w == ParseDim(markup[Least(WidthAt(markup))].val)
       IN IF ~w.ok THEN w
          ELSE IF HeightAt(markup) = {} THEN Raise("AttributeError")
               ELSE LET h == ParseDim(markup[Least(HeightAt(markup))].val)
                    IN IF ~h.ok THEN h
                       ELSE Ok(<<w.val, h.val>>)

\* ------------------------------------------------------------- the files

\* file names, in pieces
a_svg == <<"a", ".svg">>
b_svg == <<"b", ".svg">>
a_svg_svg == <<"a", ".svg", ".svg">>
notes_txt == <<"notes", ".txt">>
FileNames == {a_svg, b_svg, a_svg_svg, notes_txt}

\* attribute values, in pieces
v10 == <<"1", "0">>
v24px == <<"2", "4", "px">>

PathD == Attr(" ", "d", <<"M0 0h24v24z">>)

\* an icon saved on several lines, with an XML declaration
IconLines(rootattrs) ==
  <<Lit("<?xml version=\"1.0\" encoding=\"utf-8\"?>"), Lit("\n"), Lit("<svg")>>
  \o rootattrs
  \o <<Lit(">"), Lit("\n"), Lit("<path"), PathD, Lit(">"), Lit("</path>"), Lit("\n"),
       Lit("</svg>"), Lit("\n")>>

\* an icon saved on one line
IconOneLine(rootattrs) ==
  <<Lit("<svg")>> \o rootattrs
  \o <<Lit(">"), Lit("<path"), Attr(" ", "fill", <<"#000000">>), PathD, Lit("/>"), Lit("</svg>")>>

\* an icon whose body holds an empty group and a shape with attributes of its own
IconShapes(rootattrs) ==
  <<Lit("<svg")>> \o rootattrs
  \o <<Lit(">"), Lit("\n"), Lit("<g>"), Lit("\n"), Lit("</g>"), Lit("\n"),
       Lit("<rect"), Attr(" ", "id", <<"r">>), Attr(" ", "x", <<"1">>), Attr(" ", "y", <<"1">>),
       Attr(" ", "width", v10), Attr(" ", "height", v10), Attr(" ", "fill", <<>>), Lit("/>"),
       Lit("\n"), Lit("</svg>"), Lit("\n")>>

\* a file that ends with the start tag
IconCut(rootattrs) == <<Lit("<svg")>> \o rootattrs \o <<Lit(">")>>

Dims(w, h) == <<Attr(" ", "xmlns", SVGNS), Attr(" ", "width", w), Attr(" ", "height", h)>>

ViewBox == Attr(" ", "viewBox", <<"0 0 24 24">>)

\* the files of a run: icons of three sizes, a file that is no SVG, an icon without
\* a size, an icon without a size that holds a shape with one
RunTexts ==
  { IconLines(Dims(v10, v10)), IconOneLine(Dims(v24px, v10)), IconLines(Dims(v10, v24px)),
    <<Lit("<html>"), Lit("\n")>>, IconOneLine(<<ViewBox>>), IconShapes(<<ViewBox>>) }

\* ------------------------------------------------------------ the program

VARIABLES
  USE_GRID_LAYOUT,   \* line 15: the layout the build is configured for
  argv_dir,          \* the positional argument: <<>> or <<path>>
  argv_out,          \* args.iconset_path: <<>> (None) or <<path>> (nargs=1)
  isdir,             \* os.path.isdir(iconsdir_path)
  dir,               \* the entries [name, text] of the directory, in os.listdir order
  pc,                \* the statement the script is at
  icons,             \* line 68
  icons_markup,      \* line 135
  icons_dimensions,  \* line 142
  icon_width, icon_height, warn,   \* lines 147, 148
  width, height,     \* lines 153, 156: <<>> while unbound
  output,            \* line 161
  stderr,            \* the messages written to sys.stderr, in order
  stdout,            \* the texts written to sys.stdout, in order
  iconset_file,      \* the texts the file at iconset_path was overwritten with, in order
  exit_status        \* <<>> while running, <<code>> once the process has ended

vars == <<USE_GRID_LAYOUT, argv_dir, argv_out, isdir, dir, pc, icons, icons_markup,
          icons_dimensions, icon_width, icon_height, warn, width, height, output,
          stderr, stdout, iconset_file, exit_status>>

\* line 50: default='./images'
iconsdir_path == IF argv_dir = <<>> THEN "./images" ELSE argv_dir[1]

\* lines 56-58
iconset_path == IF argv_out # <<>> /\ Len(argv_out) > 0 THEN <<argv_out[1]>> ELSE <<>>

\* line 68: n[-4:] == ".svg"
IsSvgName(n) == n # <<>> /\ n[Len(n)] = ".svg"

\* line 138: open(os.path.join(iconsdir_path, icon)).read()
ReadFile(icon) == (CHOOSE e \in {dir[k] : k \in 1..Len(dir)} : e.name = icon).text

\* line 139: icon.replace(".svg", "")
IconName(icon) == SelectSeq(icon, LAMBDA c : c # ".svg")


ErrDefaultDir == <<"Error: The default icon files directory \"./images\" does not exist.\n">>
Usage == <<"usage: create-svg-icon-set-file.py [-h] [-o path] [icon-dir]\n">>
ErrNotValidDir(path) == <<"Error: Not a valid icon files directory: ", path, "\n">>
ErrNoIcons(path) == <<"Error: No .svg icon files found in directory: ", path, "\n">>
Warning == <<"\n<!-- !!! WARNING: NOT ALL ICON FILES HAVE THE SAME DIMENSIONS !!! -->\n\n">>
\* what the interpreter prints when an exception is not caught
Traceback(e) == <<"Traceback (most recent call last):", e>>

program == <<icons, icons_markup, icons_dimensions, icon_width, icon_height, warn,
             width, height, output>>
inputs == <<USE_GRID_LAYOUT, argv_dir, argv_out, isdir, dir>>
streams == <<stdout, iconset_file>>

\* an uncaught exception: traceback on stderr, exit status 1
Die(e) ==
  /\ stderr' = Append(stderr, Traceback(e))
  /\ exit_status' = <<1>>
  /\ pc' = "done"

\* DirMissing, with the default spelled "images" in the comparison of line 61
DirMissingOtherDefault ==
  /\ pc = "check_dir"
  /\ ~isdir
  /\ stderr' = IF iconsdir_path = "images"
               THEN stderr \o <<ErrDefaultDir, Usage>>
               ELSE Append(stderr, ErrNotValidDir(iconsdir_path))
  /\ exit_status' = <<1>>
  /\ pc' = "done"
  /\ UNCHANGED <<inputs, program, streams>>

\* lines 60-66, the directory is missing
DirMissing ==
  /\ pc = "check_dir"
  /\ ~isdir
  /\ stderr' = IF iconsdir_path = "./images"
               THEN stderr \o <<ErrDefaultDir, Usage>>
               ELSE Append(stderr, ErrNotValidDir(iconsdir_path))
  /\ exit_status' = <<1>>
  /\ pc' = "done"
  /\ UNCHANGED <<inputs, program, streams>>

\* DirFound, with the output file opened for writing ahead of the work
DirFoundOpensOutput ==
  /\ pc = "check_dir"
  /\ isdir
  /\ pc' = "list"
  /\ iconset_file' = IF iconset_path # <<>> THEN Append(iconset_file, <<>>) ELSE iconset_file
  /\ UNCHANGED <<inputs, program, stdout, stderr, exit_status>>

\* line 60, the directory is there
DirFound ==
  /\ pc = "check_dir"
  /\ isdir
  /\ pc' = "list"
  /\ UNCHANGED <<inputs, program, streams, stderr, exit_status>>

\* line 68
ListedIcons == SelectSeq([k \in 1..Len(dir) |-> dir[k].name], IsSvgName)

\* lines 68-72, no icon
ListNoIcons ==
  /\ pc = "list"
  /\ Len(ListedIcons) < 1
  /\ icons' = ListedIcons
  /\ stderr' = Append(stderr, ErrNoIcons(iconsdir_path))
  /\ exit_status' = <<1>>
  /\ pc' = "done"
  /\ UNCHANGED <<inputs, streams, icons_markup, icons_dimensions, icon_width,
                 icon_height, warn, width, height, output>>

\* lines 68-70, some icons
ListIcons ==
  /\ pc = "list"
  /\ Len(ListedIcons) >= 1
  /\ icons' = ListedIcons
  /\ pc' = "load"
  /\ UNCHANGED <<inputs, streams, stderr, exit_status, icons_markup, icons_dimensions,
                 icon_width, icon_height, warn, width, height, output>>

\* lines 137-140, one turn of the loop
LoadIcon ==
  /\ pc = "load"
  /\ Len(icons_markup) < Len(icons)
  /\ LET icon == icons[Len(icons_markup) + 1]
         markup == clean_markup(ReadFile(icon), IconName(icon))
     IN /\ markup.ok
        /\ icons_markup' = Append(icons_markup, markup.val)
  /\ UNCHANGED <<inputs, streams, stderr, exit_status, pc, icons, icons_dimensions,
                 icon_width, icon_height, warn, width, height, output>>

\* lines 137-140, clean_markup raises
LoadIconFails ==
  /\ pc = "load"
  /\ Len(icons_markup) < Len(icons)
  /\ LET icon == icons[Len(icons_markup) + 1]
         markup == clean_markup(ReadFile(icon), IconName(icon))
     IN /\ ~markup.ok
        /\ Die(markup.err)
  /\ UNCHANGED <<inputs, program, streams>>

\* line 142, the loop of line 137 is over
LoadDone ==
  /\ pc = "load"
  /\ Len(icons_markup) = Len(icons)
  /\ pc' = "measure"
  /\ UNCHANGED <<inputs, program, streams, stderr, exit_status>>

\* lines 144-145, one turn of the loop
MeasureIcon ==
  /\ pc = "measure"
  /\ Len(icons_dimensions) < Len(icons_markup)
  /\ LET dim == get_icon_dimensions_from_markup(icons_markup[Len(icons_dimensions) + 1])
     IN /\ dim.ok
        /\ icons_dimensions' = Append(icons_dimensions, dim.val)
  /\ UNCHANGED <<inputs, streams, stderr, exit_status, pc, icons, icons_markup,
                 icon_width, icon_height, warn, width, height, output>>

\* lines 144-145, get_icon_dimensions_from_markup raises
MeasureIconFails ==
  /\ pc = "measure"
  /\ Len(icons_dimensions) < Len(icons_markup)
  /\ LET dim == get_icon_dimensions_from_markup(icons_markup[Len(icons_dimensions) + 1])
     IN /\ ~dim.ok
        /\ Die(dim.err)
  /\ UNCHANGED <<inputs, program, streams>>

Max(a, b) == IF a >= b THEN a ELSE b

\* CompareLoop without lines 154-156
RECURSIVE CompareLoopWidthOnly(_, _, _, _, _)
CompareLoopWidthOnly(dims, k, w0, h0, acc) ==
  IF k > Len(dims) THEN acc
  ELSE LET w == dims[k][1]
           a == IF w # w0 THEN [acc EXCEPT !.warn = TRUE, !.width = <<Max(w, w0)>>] ELSE acc
       IN CompareLoopWidthOnly(dims, k + 1, w0, h0, a)

\* lines 148-156: the loop over icons_dimensions, from its k-th element on
RECURSIVE CompareLoop(_, _, _, _, _)
CompareLoop(dims, k, w0, h0, acc) ==
  IF k > Len(dims) THEN acc
  ELSE LET w == dims[k][1]
           h == dims[k][2]
           a == IF w # w0 THEN [acc EXCEPT !.warn = TRUE, !.width = <<Max(w, w0)>>] ELSE acc
           b == IF h # h0 THEN [a EXCEPT !.warn = TRUE, !.height = <<Max(h, h0)>>] ELSE a
       IN CompareLoop(dims, k + 1, w0, h0, b)

\* CompareDimensions, with the largest width and height kept as the icon size
CompareDimensionsKeepsMax ==
  /\ pc = "measure"
  /\ Len(icons_dimensions) = Len(icons_markup)
  /\ LET w0 == icons_dimensions[1][1]
         h0 == icons_dimensions[1][2]
         r == CompareLoop(icons_dimensions, 1, w0, h0,
                          [warn |-> FALSE, width |-> <<w0>>, height |-> <<h0>>])
     IN /\ icon_width' = r.width[1]
        /\ icon_height' = r.height[1]
        /\ warn' = r.warn
        /\ width' = r.width
        /\ height' = r.height
        /\ stderr' = IF r.warn THEN Append(stderr, Warning) ELSE stderr
  /\ pc' = "compose"
  /\ UNCHANGED <<inputs, streams, exit_status, icons, icons_markup, icons_dimensions,
                 output>>

\* lines 147-158
CompareDimensions ==
  /\ pc = "measure"
  /\ Len(icons_dimensions) = Len(icons_markup)
  /\ LET w0 == icons_dimensions[1][1]
         h0 == icons_dimensions[1][2]
         r == CompareLoop(icons_dimensions, 1, w0, h0,
                          [warn |-> FALSE, width |-> width, height |-> height])
     IN /\ icon_width' = w0
        /\ icon_height' = h0
        /\ warn' = r.warn
        /\ width' = r.width
        /\ height' = r.height
        /\ stderr' = IF r.warn THEN Append(stderr, Warning) ELSE stderr
  /\ pc' = "compose"
  /\ UNCHANGED <<inputs, streams, exit_status, icons, icons_markup, icons_dimensions,
                 output>>

\* line 161
Provenance ==
  <<Lit("<!-- from https://github.com/gaia-components/gaia-icons/tree/master/images -->"),
    Lit("\n")>>

\* line 164
StackedRoot(w, h) ==
  <<Lit("<svg"), Attr(" ", "xmlns", SVGNS), Attr(" ", "width", str(w)),
    Attr(" ", "height", str(h)), Attr(" ", "fill", <<"blue">>), Lit(">"), Lit("\n")>>

\* lines 165-168
Style ==
  <<Lit("  <style>"), Lit("\n"),
    Lit("    :root > svg { visibility: hidden; }"), Lit("\n"),
    Lit("    :root > svg:target { visibility: visible; }"), Lit("\n"),
    Lit("  </style>"), Lit("\n")>>

\* line 184
GridRoot == <<Lit("<svg"), Attr(" ", "xmlns", SVGNS), Attr(" ", "fill", <<"blue">>), Lit(">"), Lit("\n")>>

\* lines 171, 194
RootEnd == <<Lit("</svg>"), Lit("\n")>>

\* Concat, stopping one markup short
RECURSIVE ConcatStopsShort(_, _)
ConcatStopsShort(markups, k) ==
  IF k >= Len(markups) THEN <<>> ELSE markups[k] \o ConcatStopsShort(markups, k + 1)

\* lines 169-170: output += markup, for the markups from the k-th on
RECURSIVE Concat(_, _)
Concat(markups, k) ==
  IF k > Len(markups) THEN <<>> ELSE markups[k] \o Concat(markups, k + 1)

\* lines 163-171
ComposeStacked ==
  /\ pc = "compose"
  /\ ~USE_GRID_LAYOUT
  /\ output' = Provenance \o StackedRoot(icon_width, icon_height) \o Style
               \o Concat(icons_markup, 1) \o RootEnd
  /\ pc' = "write"
  /\ UNCHANGED <<inputs, streams, stderr, exit_status, icons, icons_markup,
                 icons_dimensions, icon_width, icon_height, warn, width, height>>

\* line 178
padding == 5

\* line 176: int(math.ceil(math.sqrt(n)))
cols(n) == CHOOSE c \in 0..n : c * c >= n /\ \A d \in 0..n : d * d >= n => c <= d

\* line 177: int(math.ceil(n / float(cols)))
rows(n) == (n + cols(n) - 1) \div cols(n)

\* lines 180-181 (computed, and used by nothing)
total_width(n) == str(icon_width * cols(n) + padding * (cols(n) + 1))
total_height(n) == str(icon_height * rows(n) + padding * (rows(n) + 1))

\* lines 186-192, for the icon of index i (from 0): markup[:6] is "  <svg"
Place(markup, i, n) ==
  LET row == i \div cols(n)
      col == i % cols(n)
      x == padding + col * icon_width
      y == padding + row * icon_height
  IN SubSeq(markup, 1, 3) \o <<Attr(" ", "x", str(x)), Attr(" ", "y", str(y))>>
     \o Drop(markup, 3)

\* lines 185-193, from the icon of index i on
RECURSIVE GridLoop(_, _)
GridLoop(i, n) ==
  IF i >= n THEN <<>> ELSE Place(icons_markup[i + 1], i, n) \o GridLoop(i + 1, n)

\* lines 172-194
ComposeGrid ==
  /\ pc = "compose"
  /\ USE_GRID_LAYOUT
  /\ output' = Provenance \o GridRoot \o GridLoop(0, Len(icons)) \o RootEnd
  /\ pc' = "write"
  /\ UNCHANGED <<inputs, streams, stderr, exit_status, icons, icons_markup,
                 icons_dimensions, icon_width, icon_height, warn, width, height>>

\* lines 196-199
WriteFile ==
  /\ pc = "write"
  /\ iconset_path # <<>>
  /\ iconset_file' = Append(iconset_file, output)
  /\ exit_status' = <<0>>
  /\ pc' = "done"
  /\ UNCHANGED <<inputs, program, stdout, stderr>>

\* lines 200-201
WriteStdout ==
  /\ pc = "write"
  /\ iconset_path = <<>>
  /\ stdout' = Append(stdout, output)
  /\ exit_status' = <<0>>
  /\ pc' = "done"
  /\ UNCHANGED <<inputs, program, iconset_file, stderr>>

Next ==
  \/ DirMissing \/ DirFound \/ ListNoIcons \/ ListIcons
  \/ LoadIcon \/ LoadIconFails \/ LoadDone
  \/ MeasureIcon \/ MeasureIconFails \/ CompareDimensions
  \/ ComposeStacked \/ ComposeGrid \/ WriteFile \/ WriteStdout

\* ------------------------------------------------------------- the inputs

\* the most files a directory holds
MaxFiles == 3

Entries ==
  {[name |-> n, text |-> t] : n \in {m \in FileNames : IsSvgName(m)}, t \in RunTexts}
  \cup {[name |-> n, text |-> <<Lit("notes"), Lit("\n")>>] : n \in {m \in FileNames : ~IsSvgName(m)}}

\* a directory: files of different names, in the order os.listdir yields them
Dirs ==
  UNION {{d \in [1..k -> Entries] : \A i, j \in 1..k : i # j => d[i].name # d[j].name}
         : k \in 0..MaxFiles}

Start ==
  /\ pc = "check_dir"
  /\ icons = <<>>
  /\ icons_markup = <<>>
  /\ icons_dimensions = <<>>
  /\ icon_width = 0
  /\ icon_height = 0
  /\ warn = FALSE
  /\ width = <<>>
  /\ height = <<>>
  /\ output = <<>>
  /\ stderr = <<>>
  /\ stdout = <<>>
  /\ iconset_file = <<>>
  /\ exit_status = <<>>

\* The runs: either layout, any arguments, the directory there or not; the directory
\* "icons" holds any of Dirs, the directory "./images" is empty when it is there.
Init ==
  /\ USE_GRID_LAYOUT \in BOOLEAN
  /\ argv_dir \in {<<>>, <<"./images">>, <<"icons">>}
  /\ argv_out \in {<<>>, <<"gaia-icons.svg">>}
  /\ isdir \in BOOLEAN
  /\ dir \in IF isdir /\ iconsdir_path = "icons" THEN Dirs ELSE {<<>>}
  /\ Start

Spec == Init /\ [][Next]_vars

\* ------------------------------------------ clean_markup and the dimensions

\* attributes an editor leaves on the root element, and ones the patterns miss:
\* an empty value, a newline in front, another namespace
ExtraAttrs ==
  { Attr(" ", "version", <<"1.1">>), Attr(" ", "id", <<"Layer_1">>), Attr(" ", "id", <<>>),
    Attr(" ", "xmlns", SVGNS), Attr(" ", "xmlns", <<"http://www.w3.org/1999/xhtml">>),
    Attr(" ", "xmlns:xlink", XLINKNS), Attr(" ", "x", <<"0", "px">>),
    Attr(" ", "y", <<"0", "px">>), Attr("\n", "y", <<"0", "px">>),
    Attr(" ", "enable-background", <<"new 0 0 24 24">>),
    Attr(" ", "xml:space", <<"preserve">>), Attr(" ", "fill", <<"#000000">>) }

\* the most such attributes on a root element
MaxExtraAttrs == 2

ExtraSeqs == UNION {[1..k -> ExtraAttrs] : k \in 0..MaxExtraAttrs}

\* the size on the root element: in px, missing, after a newline, not a number
RootSizes ==
  { <<Attr(" ", "width", v24px), Attr(" ", "height", v24px)>>,
    <<>>,
    <<Attr("\n", "width", v24px), Attr(" ", "height", v10)>>,
    <<Attr(" ", "width", <<"1", "0", "0", "%">>), Attr(" ", "height", v10)>> }

Layouts == {"lines", "one line", "shapes", "cut"}
Icon(layout, rootattrs) ==
  CASE layout = "lines" -> IconLines(rootattrs)
    [] layout = "one line" -> IconOneLine(rootattrs)
    [] layout = "shapes" -> IconShapes(rootattrs)
    [] layout = "cut" -> IconCut(rootattrs)

\* The script at line 137, about to load the one icon of its directory.
InitFn ==
  /\ USE_GRID_LAYOUT = FALSE
  /\ argv_dir = <<"icons">>
  /\ argv_out = <<>>
  /\ isdir = TRUE
  /\ \E n \in {b_svg, a_svg_svg}, l \in Layouts, e \in ExtraSeqs, z \in RootSizes :
       /\ dir = <<[name |-> n, text |-> Icon(l, e \o z)]>>
       /\ icons = <<n>>
  /\ pc = "load"
  /\ icons_markup = <<>>
  /\ icons_dimensions = <<>>
  /\ icon_width = 0
  /\ icon_height = 0
  /\ warn = FALSE
  /\ width = <<>>
  /\ height = <<>>
  /\ output = <<>>
  /\ stderr = <<>>
  /\ stdout = <<>>
  /\ iconset_file = <<>>
  /\ exit_status = <<>>

\* lines 137-145: the icon is cleaned and measured
NextFn == LoadIcon \/ LoadIconFails \/ LoadDone \/ MeasureIcon \/ MeasureIconFails

SpecFn == InitFn /\ [][NextFn]_vars

\* ----------------------------------------------------------------- claims

\* the attributes of name n among the tokens of m
Named(m, n) == {i \in 1..Len(m) : m[i].attr /\ m[i].name = n}

\* the file name without its last piece, the extension
BaseName(icon) == SubSeq(icon, 1, Len(icon) - 1)

\* the start tag of the first <svg element of a text, <<>> if there is none
RootTag(m) ==
  LET opens == {i \in 1..Len(m) : m[i] = Lit("<svg")}
  IN IF opens = {} \/ GtAfter(m, Least(opens)) = {} THEN <<>>
     ELSE SubSeq(m, Least(opens), Least(GtAfter(m, Least(opens))))

\* the last token of the start tag a cleaned markup begins with ("  <svg" is 3 tokens)
TagEnd(m) == Least(GtAfter(m, 3))

\* C1 (as claimed): the markup clean_markup returns holds exactly one id attribute,
\* the icon's name, and no xmlns, version, x, y, enable-background, xml:space
\* or fill attribute anywhere, on the root start tag or on a descendant.
C1_NoAttributeAnywhere ==
  \A k \in 1..Len(icons_markup) :
    LET m == icons_markup[k]
    IN /\ Cardinality(Named(m, "id")) = 1
       /\ \A i \in Named(m, "id") : m[i].val = IconName(icons[k])
       /\ \A n \in {"xmlns", "version", "x", "y", "enable-background", "xml:space", "fill"} :
            Named(m, n) = {}

\* C1 (amended): the markup clean_markup returns begins with  "  <svg id="<name>"";
\* after that id its start tag holds no  id, version, x, y, enable-background or
\* xml:space attribute that has a space in front and a non-empty value, and neither
\* the SVG nor the XLink namespace declaration; the text after the start tag holds
\* no such fill attribute.
C1_StartTagCleaned ==
  \A k \in 1..Len(icons_markup) :
    LET m == icons_markup[k]
    IN /\ SubSeq(m, 1, 4)
            = <<Lit(" "), Lit(" "), Lit("<svg"), Attr(" ", "id", IconName(icons[k]))>>
       /\ \A i \in 5..TagEnd(m) :
            ~(xmlns_re(m[i]) \/ xlink_re(m[i]) \/ id_re(m[i]) \/ version_re(m[i])
              \/ x_re(m[i]) \/ y_re(m[i]) \/ enable_background_re(m[i])
              \/ xml_space_re(m[i]))
       /\ \A i \in (TagEnd(m) + 1)..Len(m) : ~fill_re(m[i])

\* C1 witness: a cleaned icon whose source had an x on the root, and which keeps a
\* fill on its root and an x and an id on a descendant.
C1_Witness ==
  /\ Len(icons_markup) = 1
  /\ LET m == icons_markup[1]
         raw == RootTag(dir[1].text)
     IN /\ \E i \in Named(raw, "x") : x_re(raw[i])
        /\ \E i \in 5..TagEnd(m) : m[i].name = "fill"
        /\ \E i \in (TagEnd(m) + 1)..Len(m) : m[i].name = "x"
        /\ \E i \in (TagEnd(m) + 1)..Len(m) : m[i].name = "id"

\* C2: the icons of the output document have different ids, each the file name
\* without its trailing .svg and nothing else removed.
C2_UniqueIds ==
  output # <<>> =>
    \A k \in 1..Len(icons_markup) :
      /\ icons_markup[k][4] = Attr(" ", "id", BaseName(icons[k]))
      /\ \A j \in 1..Len(icons_markup) :
           j # k => icons_markup[j][4].val # icons_markup[k][4].val

\* the directory holds no file whose name ends in .svg
NoSvgFile == \A k \in 1..Len(dir) : dir[k].name[Len(dir[k].name)] # ".svg"

\* C3: when the directory is missing or holds no .svg file, the run ends with exit
\* status 1 and an error line on stderr, and writes nothing to stdout or to the
\* -o file.
C3_NoIconsNoOutput ==
  (~isdir \/ NoSvgFile) =>
    /\ stdout = <<>>
    /\ iconset_file = <<>>
    /\ pc = "done" =>
         /\ exit_status = <<1>>
         /\ stderr # <<>>
         /\ stderr[1] \in {ErrDefaultDir, ErrNotValidDir(iconsdir_path),
                           ErrNoIcons(iconsdir_path)}

\* C3 witness: a run given -o, on a directory that holds a file but no icon, has ended.
C3_Witness ==
  pc = "done" /\ isdir /\ dir # <<>> /\ NoSvgFile /\ argv_out # <<>>

\* the start tag of the document's root element, after the provenance comment
OuterTag == RootTag(output)

\* the run ended well and wrote its document once, where it was told to
WroteOnce ==
  /\ exit_status = <<0>>
  /\ IF argv_out = <<>> THEN stdout = <<output>> /\ iconset_file = <<>>
     ELSE iconset_file = <<output>> /\ stdout = <<>>

\* C4: in stacked mode the outer <svg> declares the width and height of the first
\* icon, whatever the other icons' sizes, and a run whose icons differ in size
\* still ends well with its document written.
C4_OuterSizeIsFirstIcons ==
  (~USE_GRID_LAYOUT /\ output # <<>>) =>
    /\ \E i \in Named(OuterTag, "width") :
         Named(OuterTag, "width") = {i} /\ OuterTag[i].val = str(icons_dimensions[1][1])
    /\ \E i \in Named(OuterTag, "height") :
         Named(OuterTag, "height") = {i} /\ OuterTag[i].val = str(icons_dimensions[1][2])
    /\ pc = "done" => WroteOnce

\* C4 witness: a stacked run has ended whose second icon is wider than its first.
C4_Witness ==
  /\ ~USE_GRID_LAYOUT /\ pc = "done" /\ output # <<>> /\ warn
  /\ icons_dimensions[2][1] > icons_dimensions[1][1]

\* the script is past the comparison of lines 147-158
Compared == pc \in {"compose", "write"} \/ (pc = "done" /\ output # <<>>)

Warnings == Cardinality({i \in 1..Len(stderr) : stderr[i] = Warning})

\* C5: the warning is written once when some icon's width or height is not the
\* first icon's, and not at all when all icons have the same size (nor before the
\* sizes are compared).
C5_WarnsOnceIffSizesDiffer ==
  Warnings = IF Compared /\ \E k \in 1..Len(icons_dimensions) :
                              icons_dimensions[k] # icons_dimensions[1]
             THEN 1 ELSE 0

\* C5 witness: the comparison is over for icons that differ in height only.
C5_Witness ==
  /\ Compared /\ Warnings = 1
  /\ \A k \in 1..Len(icons_dimensions) : icons_dimensions[k][1] = icons_dimensions[1][1]

\* the place the claim gives the icon of index i (from 0) among n: cells of the
\* icon's size with `padding` on every side
ClaimedPlace(markup, i, n) ==
  LET row == i \div cols(n)
      col == i % cols(n)
      x == padding + col * (icon_width + 2 * padding)
      y == padding + row * (icon_height + 2 * padding)
  IN SubSeq(markup, 1, 3) \o <<Attr(" ", "x", str(x)), Attr(" ", "y", str(y))>>
     \o Drop(markup, 3)

RECURSIVE ClaimedGrid(_, _)
ClaimedGrid(i, n) ==
  IF i >= n THEN <<>> ELSE ClaimedPlace(icons_markup[i + 1], i, n) \o ClaimedGrid(i + 1, n)

\* C6: in grid mode the icons are placed row by row on ceil(sqrt(n)) columns, each
\* in a cell of the icon's size plus 5 units of padding on every side, so that the
\* icon of index 1 among 4 icons of 10x10 gets x="25" y="5".
C6_GridCellsPadded ==
  (USE_GRID_LAYOUT /\ output # <<>>) =>
    output = Provenance \o GridRoot \o ClaimedGrid(0, Len(icons)) \o RootEnd

\* the value of an attribute read as the claim reads it: an integer, a trailing px dropped
Declared(tag, n) ==
  LET v == tag[Least(Named(tag, n))].val
  IN IF v # <<>> /\ v[Len(v)] = "px" THEN SubSeq(v, 1, Len(v) - 1) ELSE v

\* C7: get_icon_dimensions_from_markup returns the width and height the icon's root
\* element declares, a trailing px dropped, and fails when the root element declares
\* no width or no height.
C7_RootDimensions ==
  icons_dimensions # <<>> =>
    LET root == RootTag(dir[1].text)
    IN /\ Named(root, "width") # {}
       /\ Named(root, "height") # {}
       /\ icons_dimensions[1]
            = <<ParseDigits(Declared(root, "width")), ParseDigits(Declared(root, "height"))>>

\* C8 (as claimed): with the directory missing, the message about the default
\* directory and the usage line are written exactly when no directory argument was
\* given; a directory argument always gets the other message; the exit status is 1.
C8_DefaultWordingIffNoArgument ==
  (pc = "done" /\ ~isdir) =>
    /\ exit_status = <<1>>
    /\ stderr = <<ErrDefaultDir, Usage>> <=> argv_dir = <<>>
    /\ argv_dir # <<>> => stderr = <<ErrNotValidDir(argv_dir[1])>>

\* C8 (amended): with the directory missing, the message about the default directory
\* and the usage line are written exactly when the directory path in use is
\* "./images", given as the argument or assumed; any other path gets the other
\* message; the exit status is 1.
C8_DefaultWordingIffDefaultPath ==
  (pc = "done" /\ ~isdir) =>
    /\ exit_status = <<1>>
    /\ stderr = <<ErrDefaultDir, Usage>> <=> argv_dir \in {<<>>, <<"./images">>}
    /\ argv_dir \notin {<<>>, <<"./images">>} => stderr = <<ErrNotValidDir(argv_dir[1])>>

\* C8 witness: the run was given "./images", which is missing, and has ended.
C8_Witness ==
  pc = "done" /\ ~isdir /\ argv_dir = <<"./images">> /\ stderr = <<ErrDefaultDir, Usage>>

\* an icon's text holds no "<svg ", or its root element has no width or no height
Malformed(text) ==
  \/ SvgOpenAt(text) = {}
  \/ Named(RootTag(text), "width") = {}
  \/ Named(RootTag(text), "height") = {}

MalformedIcon ==
  \E k \in 1..Len(dir) :
    dir[k].name[Len(dir[k].name)] = ".svg" /\ Malformed(dir[k].text)

\* the document goes to one destination, once, when every icon is loaded and measured
WritesLastAndOnce ==
  /\ Len(stdout) + Len(iconset_file) <= 1
  /\ stdout # <<>> => argv_out = <<>>
  /\ iconset_file # <<>> => argv_out # <<>>
  /\ (stdout # <<>> \/ iconset_file # <<>>) =>
       /\ Len(icons) = Cardinality({k \in 1..Len(dir) : dir[k].name[Len(dir[k].name)] = ".svg"})
       /\ Len(icons_markup) = Len(icons)
       /\ Len(icons_dimensions) = Len(icons)

\* C9: the document is written at most once, to the -o file or to stdout and never
\* to both, and only once every icon is read, cleaned and measured; so a run with a
\* malformed icon (no "<svg ", or no width or height) ends with a traceback and
\* nothing written.
C9_MalformedIconNoOutput ==
  /\ WritesLastAndOnce
  /\ MalformedIcon =>
       /\ stdout = <<>>
       /\ iconset_file = <<>>
       /\ pc = "done" =>
            /\ exit_status = <<1>>
            /\ \E e \in {"ValueError", "AttributeError", "IndexError"} :
                 stderr[Len(stderr)] = Traceback(e)

\* the cleaned markup of the directory's .svg files from the k-th entry on, in order
RECURSIVE Fragments(_)
Fragments(k) ==
  IF k > Len(dir) THEN <<>>
  ELSE (IF dir[k].name[Len(dir[k].name)] = ".svg"
        THEN clean_markup(dir[k].text, IconName(dir[k].name)).val
        ELSE <<>>) \o Fragments(k + 1)

\* C10: the stacked document is the provenance comment, the outer start tag, the
\* <style> block, the cleaned markup of every icon once and in directory order,
\* and the closing </svg>.
C10_StackedHoldsEveryIconInOrder ==
  (~USE_GRID_LAYOUT /\ output # <<>>) =>
    output = Provenance \o StackedRoot(icons_dimensions[1][1], icons_dimensions[1][2])
             \o Style \o Fragments(1) \o RootEnd

\* C10 witness: a stacked run over two icons of different texts, with a file that
\* is no icon listed between them, has written its document.
C10_Witness ==
  /\ ~USE_GRID_LAYOUT /\ pc = "done" /\ exit_status = <<0>>
  /\ Len(icons) = 2 /\ Len(dir) = 3 /\ ~IsSvgName(dir[2].name)
  /\ dir[1].text # dir[3].text
====
